---- MODULE Spec2Model ----
(***************************************************************************)
(* Model of src/compute/apiv1/disks_client.go.                             *)
(*                                                                         *)
(* Lines 922-1233 (package spanner): the session-pool telemetry helper,    *)
(* that is the process-wide flag gfeLatencyMetricsEnabled behind statsMu,  *)
(* the enable/disable functions and the view registry they call, the GFE   *)
(* latency capture path and the construction of the tag context.           *)
(* Lines 1-920 (package compute): the Disks REST client, its 13 operations *)
(* and Close.                                                              *)
(*                                                                         *)
(* The specifications share the variables:                                 *)
(*   Spec         goroutines calling the telemetry functions concurrently, *)
(*                one step per lock operation, flag access, registry call; *)
(*   SeqSpec      one caller running whole calls one after another;        *)
(*   CaptureSpec  captureGFELatencyStats applied to bounded inputs;        *)
(*   TagSpec      getCommonTags, then                                      *)
(*                createContextAndCaptureGFELatencyMetrics;                *)
(*   DiskCallSpec each disk operation applied to bounded requests;         *)
(*   DiskSpec     goroutines calling the disk operations and Close.        *)
(***************************************************************************)
EXTENDS Integers, Sequences, FiniteSets, TLC

VARIABLES
    gfeLatencyMetricsEnabled, \* the flag (line 954)
    statsMu,                  \* the RWMutex (line 956): [writer, readers]
    views,                    \* the view registry: view name -> "none" | "own" | "foreign"
    procs,                    \* per goroutine: the call in progress and its position
    lastReturned,             \* history: the last GFE enable/disable call that returned
    lastRecord,               \* the most recent stats.Record call of a goroutine of Spec
    hist,                     \* SeqSpec: the last HistLen completed calls
    call,                     \* CaptureSpec, TagSpec, DiskCallSpec: the call, inputs and outcome
    client,                   \* the disksRESTClient: [endpoint, httpClient, xGoogMetadata]
    rpcs                      \* DiskSpec: the goroutines' disk operations, a bag of their states

vars == <<gfeLatencyMetricsEnabled, statsMu, views, procs, lastReturned, lastRecord, hist, call,
          client, rpcs>>

(***************************************************************************)
(* Bounds of the model.                                                    *)
(***************************************************************************)
NumProcs == 2
MaxSuffixLen == 2
HistLen == 3

(***************************************************************************)
(* Strings are sequences of one-character strings, so that HasPrefix,      *)
(* TrimPrefix and Atoi are computed character by character.                *)
(***************************************************************************)
GfePrefix == <<"g","f","e","t","4","t","7",";"," ","d","u","r","=">>

HasPrefix(s, prefix) ==
    /\ Len(s) >= Len(prefix)
    /\ SubSeq(s, 1, Len(prefix)) = prefix

TrimPrefix(s, prefix) ==
    IF HasPrefix(s, prefix) THEN SubSeq(s, Len(prefix) + 1, Len(s)) ELSE s

Digits == {"0","1","2","3","4","5","6","7","8","9"}

DigitVal(c) ==
    CASE c = "0" -> 0 [] c = "1" -> 1 [] c = "2" -> 2 [] c = "3" -> 3 [] c = "4" -> 4
      [] c = "5" -> 5 [] c = "6" -> 6 [] c = "7" -> 7 [] c = "8" -> 8 [] c = "9" -> 9

RECURSIVE DecimalValue(_)
DecimalValue(ds) ==
    IF ds = <<>> THEN 0
    ELSE 10 * DecimalValue(SubSeq(ds, 1, Len(ds) - 1)) + DigitVal(ds[Len(ds)])

\* strconv.Atoi: an optional sign, then one or more decimal digits. (The
\* range error needs 19 digits or more, beyond the lengths explored here.)
Atoi(s) ==
    LET signed == s # <<>> /\ s[1] \in {"-", "+"}
        body   == IF signed THEN Tail(s) ELSE s
    IN  IF body = <<>> \/ \E i \in 1..Len(body) : body[i] \notin Digits
        THEN [n |-> 0, err |-> "ErrSyntax"]
        ELSE [n |-> IF s[1] = "-" THEN 0 - DecimalValue(body) ELSE DecimalValue(body),
              err |-> "nil"]

(***************************************************************************)
(* OpenCensus tags: a tag map is a function from a set of tag keys to      *)
(* values. tag.New copies the context's map and applies the mutators in    *)
(* order; Insert keeps an existing value, Upsert overwrites it; a value    *)
(* that is not printable ASCII of at most 255 bytes is rejected.           *)
(***************************************************************************)
tagKeyClientID   == "client_id"
tagKeyDatabase   == "database"
tagKeyInstance   == "instance_id"
tagKeyLibVersion == "library_version"
tagKeyMethod     == "grpc_client_method"

\* Values holding a control character: rejected by tag.checkValue.
InvalidTagValues == {"Re\nad", "d\nb"}

checkValue(v) == v \notin InvalidTagValues

TagSet(m, k, v) == [x \in DOMAIN m \cup {k} |-> IF x = k THEN v ELSE m[x]]

TagInsert(m, k, v) == IF k \in DOMAIN m THEN m ELSE TagSet(m, k, v)

TagUpsert(m, k, v) == TagSet(m, k, v)

RECURSIVE TagApply(_, _)
TagApply(m, muts) ==
    IF muts = <<>> THEN [tags |-> m, err |-> "nil"]
    ELSE LET mu == Head(muts)
         IN  IF ~checkValue(mu.value) THEN [tags |-> m, err |-> "errInvalidValue"]
             ELSE TagApply(IF mu.kind = "insert" THEN TagInsert(m, mu.key, mu.value)
                                                 ELSE TagUpsert(m, mu.key, mu.value),
                           Tail(muts))

\* tag.New(ctx, mutators...): on an error the caller's context comes back.
TagNew(ctx, muts) ==
    LET r == TagApply(ctx, muts)
    IN  IF r.err = "nil" THEN r ELSE [tags |-> ctx, err |-> r.err]

(***************************************************************************)
(* Measures and the capture path.                                          *)
(***************************************************************************)
GFELatency            == "gfe_latency"
GFEHeaderMissingCount == "gfe_header_missing_count"

\* metadata.MD.Get: the values stored under the key, none when it is absent.
MDGet(md, k) == IF k \in DOMAIN md THEN md[k] ELSE <<>>

\* recordStat: one row, the measurement with the tags of the context it is recorded in.
recordStat(ctx, m, n) == [measure |-> m, value |-> n, tags |-> ctx]

captureGFELatencyStats_MissingIsError(ctx, md, keyMethod) ==
    IF Len(MDGet(md, "server-timing")) = 0
    THEN [err |-> "ErrSyntax", rows |-> <<>>]
    ELSE LET serverTiming == MDGet(md, "server-timing")[1]
             parsed       == Atoi(TrimPrefix(serverTiming, GfePrefix))
         IN  IF ~HasPrefix(serverTiming, GfePrefix) \/ parsed.err # "nil"
             THEN [err |-> parsed.err, rows |-> <<>>]
             ELSE LET t == TagNew(ctx, <<[kind |-> "insert", key |-> tagKeyMethod, value |-> keyMethod]>>)
                  IN  IF t.err # "nil" THEN [err |-> t.err, rows |-> <<>>]
                      ELSE [err |-> "nil", rows |-> <<recordStat(t.tags, GFELatency, parsed.n)>>]

captureGFELatencyStats_TagsMissing(ctx, md, keyMethod) ==
    IF Len(MDGet(md, "server-timing")) = 0
    THEN [err |-> "nil",
          rows |-> <<recordStat(TagInsert(ctx, tagKeyMethod, keyMethod), GFEHeaderMissingCount, 1)>>]
    ELSE LET serverTiming == MDGet(md, "server-timing")[1]
             parsed       == Atoi(TrimPrefix(serverTiming, GfePrefix))
         IN  IF ~HasPrefix(serverTiming, GfePrefix) \/ parsed.err # "nil"
             THEN [err |-> parsed.err, rows |-> <<>>]
             ELSE LET t == TagNew(ctx, <<[kind |-> "insert", key |-> tagKeyMethod, value |-> keyMethod]>>)
                  IN  IF t.err # "nil" THEN [err |-> t.err, rows |-> <<>>]
                      ELSE [err |-> "nil", rows |-> <<recordStat(t.tags, GFELatency, parsed.n)>>]

captureGFELatencyStats(ctx, md, keyMethod) ==
    IF Len(MDGet(md, "server-timing")) = 0
    THEN [err |-> "nil", rows |-> <<recordStat(ctx, GFEHeaderMissingCount, 1)>>]
    ELSE LET serverTiming == MDGet(md, "server-timing")[1]
             parsed       == Atoi(TrimPrefix(serverTiming, GfePrefix))
         IN  IF ~HasPrefix(serverTiming, GfePrefix) \/ parsed.err # "nil"
             THEN [err |-> parsed.err, rows |-> <<>>]
             ELSE LET t == TagNew(ctx, <<[kind |-> "insert", key |-> tagKeyMethod, value |-> keyMethod]>>)
                  IN  IF t.err # "nil" THEN [err |-> t.err, rows |-> <<>>]
                      ELSE [err |-> "nil", rows |-> <<recordStat(t.tags, GFELatency, parsed.n)>>]

(***************************************************************************)
(* commonTags and getCommonTags. A database name is the sequence of the    *)
(* segments between its slashes; parseDatabaseName accepts                 *)
(* projects/<p>/instances/<i>/databases/<d> with non-empty components.     *)
(***************************************************************************)
versionRepo == "repo-version"

parseDatabaseName(db) ==
    IF /\ Len(db) = 6
       /\ db[1] = "projects" /\ db[3] = "instances" /\ db[5] = "databases"
       /\ db[2] # "" /\ db[4] # "" /\ db[6] # ""
    THEN [project |-> db[2], instance |-> db[4], database |-> db[6], err |-> "nil"]
    ELSE [project |-> "", instance |-> "", database |-> "", err |-> "errInvalidDatabaseName"]

\* The nil *commonTags.
NilTags == [isNil |-> TRUE, clientID |-> "", database |-> "", instance |-> "", libVersion |-> ""]

getCommonTags_SwapsNames(sc) ==
    LET parsed == parseDatabaseName(sc.database)
    IN  IF parsed.err # "nil" THEN NilTags
        ELSE [isNil |-> FALSE, clientID |-> sc.id, database |-> parsed.instance,
              instance |-> parsed.database, libVersion |-> versionRepo]

getCommonTags(sc) ==
    LET parsed == parseDatabaseName(sc.database)
    IN  IF parsed.err # "nil" THEN NilTags
        ELSE [isNil |-> FALSE, clientID |-> sc.id, database |-> parsed.database,
              instance |-> parsed.instance, libVersion |-> versionRepo]

\* The mutators of lines 1198-1203 with their tag.Upsert replaced by tag.Insert.
CommonTagInserts(ct) ==
    <<[kind |-> "insert", key |-> tagKeyClientID,   value |-> ct.clientID],
      [kind |-> "insert", key |-> tagKeyDatabase,   value |-> ct.database],
      [kind |-> "insert", key |-> tagKeyInstance,   value |-> ct.instance],
      [kind |-> "insert", key |-> tagKeyLibVersion, value |-> ct.libVersion]>>

\* The mutators of lines 1198-1203.
CommonTagUpserts(ct) ==
    <<[kind |-> "upsert", key |-> tagKeyClientID,   value |-> ct.clientID],
      [kind |-> "upsert", key |-> tagKeyDatabase,   value |-> ct.database],
      [kind |-> "upsert", key |-> tagKeyInstance,   value |-> ct.instance],
      [kind |-> "upsert", key |-> tagKeyLibVersion, value |-> ct.libVersion]>>

\* ct is a *commonTags (lines 1223-1233): isNil marks the nil pointer, whose
\* field read at line 1199 is a nil dereference. handed holds the context
\* passed to captureGFELatencyStats, when the call gets that far.
createContextAndCaptureGFELatencyMetrics(ctx, ct, md, keyMethod) ==
    IF ct.isNil THEN [err |-> "panic", rows |-> <<>>, handed |-> <<>>]
    ELSE LET t == TagNew(ctx, CommonTagUpserts(ct))
         IN  IF t.err # "nil" THEN [err |-> t.err, rows |-> <<>>, handed |-> <<>>]
             ELSE LET r == captureGFELatencyStats(t.tags, md, keyMethod)
                  IN  [err |-> r.err, rows |-> r.rows, handed |-> <<t.tags>>]

(***************************************************************************)
(* The view registry (go.opencensus.io/stats/view), keyed by view name.    *)
(* "own" is this package's view, "foreign" a different view that other     *)
(* code registered under the same name. Register goes through its views in *)
(* order and stops at the first one whose name is taken by a different     *)
(* view; Unregister removes by name.                                       *)
(***************************************************************************)
GFELatencyView            == "GFELatencyView"
GFEHeaderMissingCountView == "GFEHeaderMissingCountView"

CoreViews ==
    <<"OpenSessionCountView", "MaxAllowedSessionsCountView", "SessionsCountView",
      "MaxInUseSessionsCountView", "GetSessionTimeoutsCountView",
      "AcquiredSessionsCountView", "ReleasedSessionsCountView">>

Range(f) == {f[i] : i \in DOMAIN f}

GfeViews == {GFELatencyView, GFEHeaderMissingCountView}

ViewNames == Range(CoreViews) \cup GfeViews

Register_RejectsRegistered(reg, vs) ==
    IF \E i \in DOMAIN vs : reg[vs[i]] # "none"
    THEN [views |-> reg, err |-> "ErrRegister"]
    ELSE [views |-> [v \in DOMAIN reg |-> IF v \in Range(vs) THEN "own" ELSE reg[v]],
          err |-> "nil"]

RECURSIVE Register(_, _)
Register(reg, vs) ==
    IF vs = <<>> THEN [views |-> reg, err |-> "nil"]
    ELSE IF reg[Head(vs)] = "foreign" THEN [views |-> reg, err |-> "ErrRegister"]
    ELSE Register([reg EXCEPT ![Head(vs)] = "own"], Tail(vs))

Unregister(reg, vs) == [v \in DOMAIN reg |-> IF v \in Range(vs) THEN "none" ELSE reg[v]]

(***************************************************************************)
(* The functions as instruction sequences. One instruction is one atomic   *)
(* step of Spec: a lock operation, the flag access, a registry call.       *)
(***************************************************************************)
Ins(i)           == [i |-> i,            b |-> FALSE, vs |-> <<>>]
InsWrite(b)      == [i |-> "Write",      b |-> b,     vs |-> <<>>]
InsRegister(vs)  == [i |-> "Register",   b |-> FALSE, vs |-> vs]
InsUnregister(vs) == [i |-> "Unregister", b |-> FALSE, vs |-> vs]

setGFELatencyMetricsFlag_NoLock(enable) == <<InsWrite(enable)>>

setGFELatencyMetricsFlag(enable) == <<Ins("Lock"), InsWrite(enable), Ins("Unlock")>>

\* The deferred RUnlock runs after the return value has been read.
getGFELatencyMetricsFlag == <<Ins("RLock"), Ins("Read"), Ins("RUnlock")>>

EnableStatViews == <<InsRegister(CoreViews)>>

EnableGfeLatencyView_RegisterFirst ==
    <<InsRegister(<<GFELatencyView>>)>> \o setGFELatencyMetricsFlag(TRUE)

EnableGfeLatencyView_SetsFalse ==
    setGFELatencyMetricsFlag(FALSE) \o <<InsRegister(<<GFELatencyView>>)>>

EnableGfeLatencyView_RegistersBoth ==
    setGFELatencyMetricsFlag(TRUE) \o <<InsRegister(<<GFELatencyView, GFEHeaderMissingCountView>>)>>

EnableGfeLatencyView ==
    setGFELatencyMetricsFlag(TRUE) \o <<InsRegister(<<GFELatencyView>>)>>

EnableGfeHeaderMissingCountView_RegisterOnly ==
    <<InsRegister(<<GFEHeaderMissingCountView>>)>>

EnableGfeHeaderMissingCountView ==
    setGFELatencyMetricsFlag(TRUE) \o <<InsRegister(<<GFEHeaderMissingCountView>>)>>

EnableGfeLatencyAndHeaderMissingCountViews ==
    setGFELatencyMetricsFlag(TRUE) \o <<InsRegister(<<GFELatencyView, GFEHeaderMissingCountView>>)>>

DisableGfeLatencyAndHeaderMissingCountViews_OnlyLatency ==
    setGFELatencyMetricsFlag(FALSE) \o <<InsUnregister(<<GFELatencyView>>)>>

DisableGfeLatencyAndHeaderMissingCountViews_KeepsFlag ==
    setGFELatencyMetricsFlag(TRUE) \o <<InsUnregister(<<GFELatencyView, GFEHeaderMissingCountView>>)>>

DisableGfeLatencyAndHeaderMissingCountViews ==
    setGFELatencyMetricsFlag(FALSE) \o <<InsUnregister(<<GFELatencyView, GFEHeaderMissingCountView>>)>>

\* The instrumented RPC path: the flag is read first and the capture runs
\* only when the read returned true.
CaptureIfEnabled == getGFELatencyMetricsFlag \o <<Ins("Capture")>>

GfeEnableOps == {"EnableGfeLatencyView", "EnableGfeHeaderMissingCountView",
                 "EnableGfeLatencyAndHeaderMissingCountViews"}
DisableOp    == "DisableGfeLatencyAndHeaderMissingCountViews"
EnableOps    == GfeEnableOps \cup {"EnableStatViews"}
LifecycleOps == EnableOps \cup {DisableOp}
Ops          == LifecycleOps \cup {"getGFELatencyMetricsFlag", "CaptureIfEnabled"}

\* The calls of Spec; CaptureIfEnabled is the reader of the flag there.
ConcurrentOps == LifecycleOps \cup {"CaptureIfEnabled"}

Program(op) ==
    CASE op = "EnableStatViews"                            -> EnableStatViews
      [] op = "EnableGfeLatencyView"                       -> EnableGfeLatencyView
      [] op = "EnableGfeHeaderMissingCountView"            -> EnableGfeHeaderMissingCountView
      [] op = "EnableGfeLatencyAndHeaderMissingCountViews" -> EnableGfeLatencyAndHeaderMissingCountViews
      [] op = DisableOp                                    -> DisableGfeLatencyAndHeaderMissingCountViews
      [] op = "getGFELatencyMetricsFlag"                   -> getGFELatencyMetricsFlag
      [] op = "CaptureIfEnabled"                           -> CaptureIfEnabled

\* "enable", "disable" or "other": which way a call moves the GFE metrics.
Kind(op) == IF op \in GfeEnableOps THEN "enable" ELSE IF op = DisableOp THEN "disable" ELSE "other"

Opposite(k) == IF k = "enable" THEN "disable" ELSE IF k = "disable" THEN "enable" ELSE "no kind"

\* What one instruction does to the flag, the registry, the value read and
\* the error to return (lock instructions act on statsMu, in the actions).
Effect(ins, st) ==
    CASE ins.i = "Write"      -> [st EXCEPT !.flag = ins.b]
      [] ins.i = "Read"       -> [st EXCEPT !.val = st.flag]
      [] ins.i = "Register"   -> [st EXCEPT !.views = Register(st.views, ins.vs).views,
                                            !.err   = Register(st.views, ins.vs).err]
      [] ins.i = "Unregister" -> [st EXCEPT !.views = Unregister(st.views, ins.vs)]
      [] OTHER                -> st

RECURSIVE Run(_, _)
Run(prog, st) == IF prog = <<>> THEN st ELSE Run(Tail(prog), Effect(Head(prog), st))

(***************************************************************************)
(* The Disks REST client (lines 1-920). A disksRESTClient holds endpoint,  *)
(* httpClient and xGoogMetadata; each of the 13 operations marshals the    *)
(* request, builds the URL and the query, creates the HTTP request, copies *)
(* the headers, calls httpClient.Do and turns the response into a result.  *)
(***************************************************************************)
DiskOperations ==
    {"AddResourcePolicies", "AggregatedList", "CreateSnapshot", "Delete", "Get",
     "GetIamPolicy", "Insert", "List", "RemoveResourcePolicies", "Resize",
     "SetIamPolicy", "SetLabels", "TestIamPermissions"}

Verb_DeleteAsGet(op) ==
    CASE op \in {"AggregatedList", "Get", "GetIamPolicy", "List", "Delete"} -> "GET"
      [] OTHER                                                              -> "POST"

\* The method given to http.NewRequest.
Verb(op) ==
    CASE op \in {"AggregatedList", "Get", "GetIamPolicy", "List"} -> "GET"
      [] op = "Delete"                                            -> "DELETE"
      [] OTHER                                                    -> "POST"

\* The format string of fmt.Sprintf, cut at its %v verbs.
PathTemplate(op) ==
    LET disk == <<"/compute/v1/projects/", "%v", "/zones/", "%v", "/disks/", "%v">>
    IN  CASE op = "AddResourcePolicies"    -> disk \o <<"/addResourcePolicies">>
          [] op = "AggregatedList"         -> <<"/compute/v1/projects/", "%v", "/aggregated/disks">>
          [] op = "CreateSnapshot"         -> disk \o <<"/createSnapshot">>
          [] op = "Delete"                 -> disk
          [] op = "Get"                    -> disk
          [] op = "GetIamPolicy"           -> disk \o <<"/getIamPolicy">>
          [] op = "Insert"                 -> <<"/compute/v1/projects/", "%v", "/zones/", "%v", "/disks">>
          [] op = "List"                   -> <<"/compute/v1/projects/", "%v", "/zones/", "%v", "/disks">>
          [] op = "RemoveResourcePolicies" -> disk \o <<"/removeResourcePolicies">>
          [] op = "Resize"                 -> disk \o <<"/resize">>
          [] op = "SetIamPolicy"           -> disk \o <<"/setIamPolicy">>
          [] op = "SetLabels"              -> disk \o <<"/setLabels">>
          [] op = "TestIamPermissions"     -> disk \o <<"/testIamPermissions">>

\* The getters of a request; on a nil request they give the zero value.
GetProject(req)  == IF req.isNil THEN "" ELSE req.project
GetZone(req)     == IF req.isNil THEN "" ELSE req.zone
GetDisk(req)     == IF req.isNil THEN "" ELSE req.disk
GetResource(req) == IF req.isNil THEN "" ELSE req.resource

\* The arguments of fmt.Sprintf.
PathArgs(op, req) ==
    CASE op = "AggregatedList"      -> <<GetProject(req)>>
      [] op \in {"Insert", "List"}  -> <<GetProject(req), GetZone(req)>>
      [] op \in {"GetIamPolicy", "SetIamPolicy", "SetLabels", "TestIamPermissions"}
                                    -> <<GetProject(req), GetZone(req), GetResource(req)>>
      [] OTHER                      -> <<GetProject(req), GetZone(req), GetDisk(req)>>

\* fmt.Sprintf on strings: each %v is replaced by the next argument.
RECURSIVE Sprintf(_, _)
Sprintf(format, args) ==
    IF format = <<>> THEN ""
    ELSE IF Head(format) = "%v"
         THEN (IF args = <<>> THEN "%!v(MISSING)" ELSE Head(args))
                 \o Sprintf(Tail(format), IF args = <<>> THEN args ELSE Tail(args))
         ELSE Head(format) \o Sprintf(Tail(format), args)

\* The optional fields each operation turns into query parameters, in the
\* order of the code.
QueryParams(op) ==
    CASE op = "AggregatedList" -> <<"filter", "includeAllScopes", "maxResults", "orderBy",
                                    "pageToken", "returnPartialSuccess">>
      [] op = "List"           -> <<"filter", "maxResults", "orderBy", "pageToken",
                                    "returnPartialSuccess">>
      [] op = "CreateSnapshot" -> <<"guestFlush", "requestId">>
      [] op = "Insert"         -> <<"requestId", "sourceImage">>
      [] op = "GetIamPolicy"   -> <<"optionsRequestedPolicyVersion">>
      [] op \in {"AddResourcePolicies", "Delete", "RemoveResourcePolicies", "Resize",
                 "SetLabels"}  -> <<"requestId">>
      [] OTHER                 -> <<>>

BoolParams == {"includeAllScopes", "returnPartialSuccess", "guestFlush"}

IntParams == {"maxResults", "optionsRequestedPolicyVersion"}

DecimalDigit(d) ==
    CASE d = 0 -> "0" [] d = 1 -> "1" [] d = 2 -> "2" [] d = 3 -> "3" [] d = 4 -> "4"
      [] d = 5 -> "5" [] d = 6 -> "6" [] d = 7 -> "7" [] d = 8 -> "8" [] d = 9 -> "9"

RECURSIVE FormatInt(_)
FormatInt(n) == IF n < 10 THEN DecimalDigit(n) ELSE FormatInt(n \div 10) \o DecimalDigit(n % 10)

\* fmt.Sprintf("%v", value) for the field of the parameter.
FormatValue(name, v) ==
    IF name \in BoolParams THEN (IF v THEN "true" ELSE "false")
    ELSE IF name \in IntParams THEN FormatInt(v)
    ELSE v

\* url.Values.Add: the value goes after the values the key already has.
ValuesAdd(params, name, value) ==
    [k \in DOMAIN params \cup {name} |->
        IF k = name THEN (IF name \in DOMAIN params THEN params[name] ELSE <<>>) \o <<value>>
        ELSE params[k]]

RECURSIVE AddParams_SkipsZero(_, _, _)
AddParams_SkipsZero(params, names, req) ==
    IF names = <<>> THEN params
    ELSE LET name == Head(names)
         IN  AddParams_SkipsZero(
                 IF ~req.isNil /\ name \in DOMAIN req.opt
                               /\ FormatValue(name, req.opt[name]) \notin {"", "0", "false"}
                 THEN ValuesAdd(params, name, FormatValue(name, req.opt[name]))
                 ELSE params,
                 Tail(names), req)

\* The if statements that fill params: a field that is set (a non-nil
\* pointer) is added, formatted.
RECURSIVE AddParams(_, _, _)
AddParams(params, names, req) ==
    IF names = <<>> THEN params
    ELSE LET name == Head(names)
         IN  AddParams(IF ~req.isNil /\ name \in DOMAIN req.opt
                       THEN ValuesAdd(params, name, FormatValue(name, req.opt[name]))
                       ELSE params,
                       Tail(names), req)

\* The keys in the order url.Values.Encode writes them (sorted).
SortedKeys == <<"filter", "guestFlush", "includeAllScopes", "maxResults",
                "optionsRequestedPolicyVersion", "orderBy", "pageToken", "requestId",
                "returnPartialSuccess", "sourceImage">>

\* url.Values.Encode: key=value for every value of every key, by sorted key.
RECURSIVE Encode(_, _)
Encode(params, keys) ==
    IF keys = <<>> THEN <<>>
    ELSE (IF Head(keys) \in DOMAIN params
          THEN [i \in 1..Len(params[Head(keys)]) |->
                   [key |-> Head(keys), value |-> params[Head(keys)][i]]]
          ELSE <<>>) \o Encode(params, Tail(keys))

NoParams == [k \in {} |-> <<>>]

RawQuery(op, req) == Encode(AddParams(NoParams, QueryParams(op), req), SortedKeys)

\* What is marshalled into the body: the request itself, or its resource field.
BodyOf(op) ==
    CASE op = "AddResourcePolicies"    -> "DisksAddResourcePoliciesRequestResource"
      [] op = "CreateSnapshot"         -> "SnapshotResource"
      [] op = "Insert"                 -> "DiskResource"
      [] op = "RemoveResourcePolicies" -> "DisksRemoveResourcePoliciesRequestResource"
      [] op = "Resize"                 -> "DisksResizeRequestResource"
      [] op = "SetIamPolicy"           -> "ZoneSetPolicyRequestResource"
      [] op = "SetLabels"              -> "ZoneSetLabelsRequestResource"
      [] op = "TestIamPermissions"     -> "TestPermissionsRequestResource"
      [] OTHER                         -> "req"

\* The type of rsp, the value the response is unmarshalled into.
ResultType(op) ==
    CASE op = "AggregatedList"                 -> "DiskAggregatedList"
      [] op = "Get"                            -> "Disk"
      [] op \in {"GetIamPolicy", "SetIamPolicy"} -> "Policy"
      [] op = "List"                           -> "DiskList"
      [] op = "TestIamPermissions"             -> "TestPermissionsResponse"
      [] OTHER                                 -> "Operation"

StatusOK == 200

\* The client NewDisksRESTClient returns.
NewDisksRESTClient ==
    [endpoint      |-> "https://compute.googleapis.com",
     httpClient    |-> "httpClient",
     xGoogMetadata |-> [k \in {"x-goog-api-client"} |-> <<"gl-go gapic gax rest">>]]

\* baseUrl after the path and the query are set.
BaseUrl(op, req, c) ==
    [string   |-> c.endpoint \o Sprintf(PathTemplate(op), PathArgs(op, req)),
     rawQuery |-> RawQuery(op, req)]

\* The header of httpReq: the client's metadata, then Content-Type.
Header(c) ==
    [k \in DOMAIN c.xGoogMetadata \cup {"Content-Type"} |->
        IF k = "Content-Type" THEN <<"application/json">> ELSE c.xGoogMetadata[k]]

\* httpReq as it is given to httpClient.Do.
HttpRequest(op, baseUrl, header) ==
    [method |-> Verb(op), url |-> baseUrl, header |-> header, body |-> BodyOf(op)]

\* What the environment does to a call: fault is the step that fails
\* ("none" when none does), status the status code of the response.
NoFault == [fault |-> "none", status |-> StatusOK]

Outcomes ==
    {[fault |-> f, status |-> StatusOK] :
        f \in {"none", "marshal", "newRequest", "transport", "read", "unmarshal"}}
    \cup {[fault |-> "none", status |-> st] : st \in {204, 404}}
    \cup {[fault |-> "unmarshal", status |-> 404]}

NilResult(err) == [result |-> "nil", err |-> err, deserialized |-> FALSE]

Respond_NilOnUnmarshalError(op, outcome) ==
    IF outcome.fault = "transport" THEN NilResult("transport")
    ELSE IF outcome.status # 200 THEN NilResult("status")
    ELSE IF outcome.fault = "read" THEN NilResult("read")
    ELSE IF outcome.fault = "unmarshal"
    THEN [result |-> "nil", err |-> "unmarshal", deserialized |-> TRUE]
    ELSE [result |-> ResultType(op), err |-> "nil", deserialized |-> TRUE]

Respond_Any2xx(op, outcome) ==
    IF outcome.fault = "transport" THEN NilResult("transport")
    ELSE IF outcome.status \notin 200..299 THEN NilResult("status")
    ELSE IF outcome.fault = "read" THEN NilResult("read")
    ELSE [result |-> ResultType(op),
          err |-> IF outcome.fault = "unmarshal" THEN "unmarshal" ELSE "nil",
          deserialized |-> TRUE]

\* From httpClient.Do's return to the operation's return.
Respond(op, outcome) ==
    IF outcome.fault = "transport" THEN NilResult("transport")
    ELSE IF outcome.status # StatusOK THEN NilResult("status")
    ELSE IF outcome.fault = "read" THEN NilResult("read")
    ELSE [result |-> ResultType(op),
          err |-> IF outcome.fault = "unmarshal" THEN "unmarshal" ELSE "nil",
          deserialized |-> TRUE]

\* A whole operation on client c: the requests it issues and what it returns.
\* With httpClient nil (after Close) the call of Do is a nil dereference.
DiskCall(op, req, outcome, c) ==
    IF outcome.fault \in {"marshal", "newRequest"}
    THEN [sent |-> <<>>] @@ NilResult(outcome.fault)
    ELSE IF c.httpClient = "nil"
    THEN [sent |-> <<>>] @@ NilResult("panic")
    ELSE [sent |-> <<HttpRequest(op, BaseUrl(op, req, c), Header(c))>>] @@ Respond(op, outcome)

NilRequest == [isNil |-> TRUE, project |-> "", zone |-> "", disk |-> "", resource |-> "",
               opt |-> [k \in {} |-> ""]]

\* A set value and the zero value of the parameter's field.
ParamValues(name) ==
    IF name \in BoolParams THEN {FALSE, TRUE}
    ELSE IF name \in IntParams THEN {0, 25}
    ELSE {"", "a"}

\* Every way to leave unset or set the optional fields named.
RECURSIVE Opts(_)
Opts(names) ==
    IF names = <<>> THEN {[k \in {} |-> ""]}
    ELSE LET rest == Opts(Tail(names))
         IN  rest \cup {[k \in DOMAIN f \cup {Head(names)} |->
                            IF k = Head(names) THEN v ELSE f[k]] :
                               f \in rest, v \in ParamValues(Head(names))}

DiskRequests(op) ==
    {NilRequest}
    \cup {[isNil |-> FALSE, project |-> "p", zone |-> "z", disk |-> "d", resource |-> "r",
           opt |-> o] : o \in Opts(QueryParams(op))}

\* A goroutine that has no disk operation in progress and has returned from none.
IdleRpc == [op |-> "idle", pc |-> "idle", req |-> NilRequest, outcome |-> NoFault,
            baseUrl |-> <<>>, httpReq |-> <<>>, sent |-> <<>>,
            result |-> "nil", err |-> "nil", deserialized |-> FALSE]

(***************************************************************************)
(* State.                                                                  *)
(***************************************************************************)
Procs == 1..NumProcs

Idle == [op |-> "idle", pc |-> 0, val |-> FALSE, clean |-> TRUE]

NoneReturned == [kind |-> "none", clean |-> FALSE]

NoRecord == [measure |-> "none", enabled |-> FALSE]

EmptyTags == [k \in {} |-> ""]

NoMD == [k \in {} |-> <<>>]

MkMD(values) == [k \in {"server-timing"} |-> values]

NoCall == [fn |-> "none", ctx |-> EmptyTags, md |-> NoMD, keyMethod |-> "", err |-> "nil", rows |-> <<>>]

InitLifecycle ==
    /\ gfeLatencyMetricsEnabled = FALSE
    /\ statsMu = [writer |-> 0, readers |-> {}]
    /\ views = [v \in ViewNames |-> "none"]
    /\ procs = [p \in Procs |-> Idle]
    /\ lastReturned = NoneReturned
    /\ lastRecord = NoRecord
    /\ hist = <<>>
    /\ client = NewDisksRESTClient
    /\ rpcs = [s \in {IdleRpc} |-> NumProcs]

Init == InitLifecycle /\ call = NoCall

(***************************************************************************)
(* Spec: goroutines run the functions concurrently.                        *)
(***************************************************************************)
Cur(p) == Program(procs[p].op)[procs[p].pc]

At(p, i) == procs[p].op # "idle" /\ Cur(p).i = i

InProgress(k) == \E q \in Procs : Kind(procs[q].op) = k

\* A step of a call of kind k ends the period after the last returned call
\* of the opposite kind.
Touch(k) == IF lastReturned.kind = Opposite(k) THEN NoneReturned ELSE lastReturned

\* p has executed its instruction, with val the value it now holds; after
\* its last instruction the call returns.
Advance(p, val) ==
    LET pr   == procs[p]
        last == pr.pc = Len(Program(pr.op))
    IN  /\ procs' = [procs EXCEPT ![p] = IF last THEN Idle
                                         ELSE [pr EXCEPT !.pc = pr.pc + 1, !.val = val]]
        /\ lastReturned' = IF last /\ Kind(pr.op) # "other"
                            THEN [kind |-> Kind(pr.op), clean |-> pr.clean]
                            ELSE Touch(Kind(pr.op))

Call(p, op) ==
    /\ procs[p].op = "idle"
    /\ procs' = [q \in Procs |->
                   IF q = p
                   THEN [op |-> op, pc |-> 1, val |-> FALSE,
                         clean |-> ~InProgress(Opposite(Kind(op)))]
                   ELSE IF Kind(procs[q].op) = Opposite(Kind(op))
                        THEN [procs[q] EXCEPT !.clean = FALSE]
                        ELSE procs[q]]
    /\ lastReturned' = Touch(Kind(op))
    /\ UNCHANGED <<gfeLatencyMetricsEnabled, statsMu, views, lastRecord, hist, call, client, rpcs>>

DoLock(p) ==
    /\ At(p, "Lock")
    /\ statsMu.writer = 0 /\ statsMu.readers = {}
    /\ statsMu' = [statsMu EXCEPT !.writer = p]
    /\ Advance(p, procs[p].val)
    /\ UNCHANGED <<gfeLatencyMetricsEnabled, views, lastRecord, hist, call, client, rpcs>>

DoUnlock(p) ==
    /\ At(p, "Unlock")
    /\ statsMu' = [statsMu EXCEPT !.writer = 0]
    /\ Advance(p, procs[p].val)
    /\ UNCHANGED <<gfeLatencyMetricsEnabled, views, lastRecord, hist, call, client, rpcs>>

DoRLock(p) ==
    /\ At(p, "RLock")
    /\ statsMu.writer = 0
    /\ statsMu' = [statsMu EXCEPT !.readers = @ \cup {p}]
    /\ Advance(p, procs[p].val)
    /\ UNCHANGED <<gfeLatencyMetricsEnabled, views, lastRecord, hist, call, client, rpcs>>

DoRUnlock(p) ==
    /\ At(p, "RUnlock")
    /\ statsMu' = [statsMu EXCEPT !.readers = @ \ {p}]
    /\ Advance(p, procs[p].val)
    /\ UNCHANGED <<gfeLatencyMetricsEnabled, views, lastRecord, hist, call, client, rpcs>>

\* The flag access and the registry calls: p executes its current instruction.
ApplyEffect(p) ==
    LET st == Effect(Cur(p), [flag |-> gfeLatencyMetricsEnabled, views |-> views,
                              val |-> procs[p].val, err |-> "nil"])
    IN  /\ gfeLatencyMetricsEnabled' = st.flag
        /\ views' = st.views
        /\ Advance(p, st.val)

DoWrite(p) ==
    /\ At(p, "Write")
    /\ ApplyEffect(p)
    /\ UNCHANGED <<statsMu, lastRecord, hist, call, client, rpcs>>

DoRead(p) ==
    /\ At(p, "Read")
    /\ ApplyEffect(p)
    /\ UNCHANGED <<statsMu, lastRecord, hist, call, client, rpcs>>

DoRegister(p) ==
    /\ At(p, "Register")
    /\ ApplyEffect(p)
    /\ UNCHANGED <<statsMu, lastRecord, hist, call, client, rpcs>>

DoUnregister(p) ==
    /\ At(p, "Unregister")
    /\ ApplyEffect(p)
    /\ UNCHANGED <<statsMu, lastRecord, hist, call, client, rpcs>>

(***************************************************************************)
(* Inputs of the capture path.                                             *)
(***************************************************************************)
FooPrefix == <<"f","o","o",";"," ","d","u","r","=">>

\* The expected prefix, no prefix, another prefix, the prefix cut short.
Heads == {GfePrefix, <<>>, FooPrefix, SubSeq(GfePrefix, 1, Len(GfePrefix) - 1)}

SuffixChars == {"0", "2", "4", "-", "+", "x"}

Tails == UNION {[1..n -> SuffixChars] : n \in 0..MaxSuffixLen}

Headers == {h \o t : h \in Heads, t \in Tails}

SecondValue == GfePrefix \o <<"7">>

\* No server-timing entry, an entry with no value, one value, two values.
MDs == {NoMD, MkMD(<<>>)} \cup {MkMD(<<h>>) : h \in Headers}
                          \cup {MkMD(<<h, SecondValue>>) : h \in Headers}

Methods == {"Read", "Commit"} \cup InvalidTagValues

Ctxs == {EmptyTags,
         [k \in {tagKeyMethod} |-> "Read"],
         [k \in {tagKeyMethod} |-> "Other"],
         [k \in {tagKeyClientID} |-> "client-0"]}

RpcTags == [isNil |-> FALSE, clientID |-> "client-1", database |-> "db",
            instance |-> "inst", libVersion |-> "repo-version"]

\* The responses a goroutine of Spec captures: no header, a well-formed
\* header, a malformed one.
RpcMDs == {NoMD, MkMD(<<GfePrefix \o <<"4">> >>), MkMD(<<FooPrefix \o <<"4">> >>)}

DoCapture_Ungated(p) ==
    /\ At(p, "Capture")
    /\ \E md \in RpcMDs :
          LET r == createContextAndCaptureGFELatencyMetrics(EmptyTags, RpcTags, md, "Read")
          IN  lastRecord' = IF r.rows # <<>>
                            THEN [measure |-> r.rows[1].measure,
                                  enabled |-> gfeLatencyMetricsEnabled]
                            ELSE lastRecord
    /\ Advance(p, procs[p].val)
    /\ UNCHANGED <<gfeLatencyMetricsEnabled, statsMu, views, hist, call, client, rpcs>>

\* The capture of CaptureIfEnabled, run when the flag read returned true.
DoCapture(p) ==
    /\ At(p, "Capture")
    /\ procs[p].val
    /\ \E md \in RpcMDs :
          LET r == createContextAndCaptureGFELatencyMetrics(EmptyTags, RpcTags, md, "Read")
          IN  lastRecord' = IF r.rows # <<>>
                            THEN [measure |-> r.rows[1].measure,
                                  enabled |-> gfeLatencyMetricsEnabled]
                            ELSE lastRecord
    /\ Advance(p, procs[p].val)
    /\ UNCHANGED <<gfeLatencyMetricsEnabled, statsMu, views, hist, call, client, rpcs>>

SkipCapture(p) ==
    /\ At(p, "Capture")
    /\ ~procs[p].val
    /\ Advance(p, procs[p].val)
    /\ UNCHANGED <<gfeLatencyMetricsEnabled, statsMu, views, lastRecord, hist, call, client, rpcs>>

Next ==
    \E p \in Procs :
        \/ \E op \in ConcurrentOps : Call(p, op)
        \/ DoLock(p)
        \/ DoWrite(p)
        \/ DoUnlock(p)
        \/ DoRLock(p)
        \/ DoRead(p)
        \/ DoRUnlock(p)
        \/ DoRegister(p)
        \/ DoUnregister(p)
        \/ DoCapture(p)
        \/ SkipCapture(p)

Spec == Init /\ [][Next]_vars

(***************************************************************************)
(* SeqSpec: one caller runs whole calls one after another; other code of   *)
(* the process may register a different view under one of the names.       *)
(***************************************************************************)
SeqOps == LifecycleOps \cup {"getGFELatencyMetricsFlag"}

ForeignNames == {GFELatencyView, GFEHeaderMissingCountView, CoreViews[3]}

Push(h, r) == IF Len(h) < HistLen THEN Append(h, r) ELSE Append(Tail(h), r)

Done(op, st) == [op |-> op, err |-> st.err, val |-> st.val, flag |-> st.flag, views |-> st.views]

SeqCall(op) ==
    LET st == Run(Program(op), [flag |-> gfeLatencyMetricsEnabled, views |-> views,
                                val |-> FALSE, err |-> "nil"])
    IN  /\ gfeLatencyMetricsEnabled' = st.flag
        /\ views' = st.views
        /\ hist' = Push(hist, Done(op, st))
        /\ UNCHANGED <<statsMu, procs, lastReturned, lastRecord, call, client, rpcs>>

RegisterForeign(v) ==
    /\ views[v] = "none"
    /\ views' = [views EXCEPT ![v] = "foreign"]
    /\ hist' = Push(hist, [op |-> "RegisterForeign", err |-> "nil", val |-> FALSE,
                            flag |-> gfeLatencyMetricsEnabled, views |-> views'])
    /\ UNCHANGED <<gfeLatencyMetricsEnabled, statsMu, procs, lastReturned, lastRecord, call, client, rpcs>>

SeqNext ==
    \/ \E op \in SeqOps : SeqCall(op)
    \/ \E v \in ForeignNames : RegisterForeign(v)

SeqSpec == Init /\ [][SeqNext]_vars

(***************************************************************************)
(* CaptureSpec: captureGFELatencyStats applied to every input.             *)
(***************************************************************************)
CaptureInit ==
    /\ InitLifecycle
    /\ call \in {[fn |-> "pending", ctx |-> ctx, md |-> md, keyMethod |-> keyMethod,
                   err |-> "nil", rows |-> <<>>] :
                      ctx \in Ctxs, md \in MDs, keyMethod \in Methods}

CaptureCall ==
    /\ call.fn = "pending"
    /\ LET r == captureGFELatencyStats(call.ctx, call.md, call.keyMethod)
       IN  call' = [call EXCEPT !.fn = "captureGFELatencyStats", !.err = r.err, !.rows = r.rows]
    /\ UNCHANGED <<gfeLatencyMetricsEnabled, statsMu, views, procs, lastReturned, lastRecord, hist,
                   client, rpcs>>

CaptureNext == CaptureCall

CaptureSpec == CaptureInit /\ [][CaptureNext]_vars

(***************************************************************************)
(* TagSpec: getCommonTags applied to a session client, then                *)
(* createContextAndCaptureGFELatencyMetrics applied to its result.         *)
(***************************************************************************)
\* Database names: well-formed, with a component tag.New rejects, cut
\* short, with an empty component, without the projects segment, empty.
DatabaseNames ==
    {<<"projects", "p", "instances", "inst", "databases", "db">>,
     <<"projects", "p", "instances", "inst", "databases", "d\nb">>,
     <<"projects", "p", "instances", "inst">>,
     <<"projects", "p", "instances", "inst", "databases", "">>,
     <<"instances", "inst", "databases", "db">>,
     <<>>}

SessionClients == {[id |-> "client-1", database |-> db] : db \in DatabaseNames}

CommonTagKeys == {tagKeyClientID, tagKeyDatabase, tagKeyInstance, tagKeyLibVersion}

\* Incoming contexts: no tags, one of the four keys, all four and the
\* method, a key of another library.
TagCtxs == {EmptyTags,
            [k \in {tagKeyClientID} |-> "client-0"],
            [k \in CommonTagKeys \cup {tagKeyMethod} |-> "old"],
            [k \in {"custom"} |-> "x"]}

TagMDs == {NoMD, MkMD(<<GfePrefix \o <<"4", "2">> >>), MkMD(<<FooPrefix \o <<"4", "2">> >>),
           MkMD(<<<<"4", "2">> >>)}

TagInit ==
    /\ InitLifecycle
    /\ call \in {[fn |-> "pending", sc |-> sc, ct |-> NilTags, ctx |-> ctx, md |-> md,
                   keyMethod |-> keyMethod, err |-> "nil", rows |-> <<>>, handed |-> <<>>] :
                      sc \in SessionClients, ctx \in TagCtxs, md \in TagMDs,
                      keyMethod \in Methods}

GetCommonTagsCall ==
    /\ call.fn = "pending"
    /\ call' = [call EXCEPT !.fn = "getCommonTags", !.ct = getCommonTags(call.sc)]
    /\ UNCHANGED <<gfeLatencyMetricsEnabled, statsMu, views, procs, lastReturned, lastRecord, hist,
                   client, rpcs>>

CreateContextCall ==
    /\ call.fn = "getCommonTags"
    /\ LET r == createContextAndCaptureGFELatencyMetrics(call.ctx, call.ct, call.md, call.keyMethod)
       IN  call' = [call EXCEPT !.fn = "createContextAndCaptureGFELatencyMetrics",
                                !.err = r.err, !.rows = r.rows, !.handed = r.handed]
    /\ UNCHANGED <<gfeLatencyMetricsEnabled, statsMu, views, procs, lastReturned, lastRecord, hist,
                   client, rpcs>>

TagNext == GetCommonTagsCall \/ CreateContextCall

TagSpec == TagInit /\ [][TagNext]_vars

(***************************************************************************)
(* DiskCallSpec: each disk operation applied, as a whole, to every request *)
(* and every outcome of the marshalling, the transport and the server.     *)
(***************************************************************************)
DiskCallInit ==
    /\ InitLifecycle
    /\ call \in UNION {{[fn |-> "pending", op |-> op, req |-> req, outcome |-> outcome,
                         sent |-> <<>>, result |-> "nil", err |-> "nil",
                         deserialized |-> FALSE] :
                            req \in DiskRequests(op), outcome \in Outcomes} :
                       op \in DiskOperations}

Operation(op) ==
    /\ call.fn = "pending"
    /\ call.op = op
    /\ LET r == DiskCall(op, call.req, call.outcome, client)
       IN  call' = [call EXCEPT !.fn = op, !.sent = r.sent, !.result = r.result,
                                !.err = r.err, !.deserialized = r.deserialized]
    /\ UNCHANGED <<gfeLatencyMetricsEnabled, statsMu, views, procs, lastReturned, lastRecord, hist,
                   client, rpcs>>

AddResourcePolicies    == Operation("AddResourcePolicies")
AggregatedList         == Operation("AggregatedList")
CreateSnapshot         == Operation("CreateSnapshot")
Delete                 == Operation("Delete")
Get                    == Operation("Get")
GetIamPolicy           == Operation("GetIamPolicy")
Insert                 == Operation("Insert")
List                   == Operation("List")
RemoveResourcePolicies == Operation("RemoveResourcePolicies")
Resize                 == Operation("Resize")
SetIamPolicy           == Operation("SetIamPolicy")
SetLabels              == Operation("SetLabels")
TestIamPermissions     == Operation("TestIamPermissions")

DiskCallNext ==
    \/ AddResourcePolicies
    \/ AggregatedList
    \/ CreateSnapshot
    \/ Delete
    \/ Get
    \/ GetIamPolicy
    \/ Insert
    \/ List
    \/ RemoveResourcePolicies
    \/ Resize
    \/ SetIamPolicy
    \/ SetLabels
    \/ TestIamPermissions

DiskCallSpec == DiskCallInit /\ [][DiskCallNext]_vars

(***************************************************************************)
(* DiskSpec: goroutines call the operations and Close on one client. An    *)
(* operation takes three steps, one for each field of the client it reads: *)
(* the endpoint (marshalling and building the URL), xGoogMetadata          *)
(* (creating the request and copying the headers), httpClient (Do and the  *)
(* handling of the response).                                              *)
(***************************************************************************)
\* The request of a goroutine of DiskSpec: every optional field set.
FullRequest(op) ==
    [isNil |-> FALSE, project |-> "p", zone |-> "z", disk |-> "d", resource |-> "r",
     opt |-> [k \in Range(QueryParams(op)) |->
                 IF k \in BoolParams THEN TRUE ELSE IF k \in IntParams THEN 25 ELSE "a"]]

\* What httpClient.Do and the server do to a call of a goroutine of DiskSpec.
DoOutcomes == {NoFault, [fault |-> "transport", status |-> StatusOK],
               [fault |-> "none", status |-> 404]}

\* rpcs is the bag of the goroutines' states (goroutines have no identity):
\* rpcs[s] goroutines are in state s. Goroutines is the set of the states.
Goroutines == DOMAIN rpcs

\* The number of goroutines in state s.
CountIn(bag, s) == IF s \in DOMAIN bag THEN bag[s] ELSE 0

Take(bag, s) == IF bag[s] = 1 THEN [x \in DOMAIN bag \ {s} |-> bag[x]]
                ELSE [bag EXCEPT ![s] = @ - 1]

Put(bag, t) == IF t \in DOMAIN bag THEN [bag EXCEPT ![t] = @ + 1]
               ELSE [x \in DOMAIN bag \cup {t} |-> IF x = t THEN 1 ELSE bag[x]]

\* One goroutine goes from state s to state t.
Move(s, t) == rpcs' = Put(Take(rpcs, s), t)

InOperation(s) == s.pc \in {"BuildURL", "NewRequest", "Do"}

Returned(s, r) == [s EXCEPT !.pc = "returned", !.result = r.result, !.err = r.err,
                            !.deserialized = r.deserialized]

CallDisk(s, op) ==
    /\ ~InOperation(s)
    /\ Move(s, [IdleRpc EXCEPT !.op = op, !.pc = "BuildURL", !.req = FullRequest(op)])
    /\ UNCHANGED <<gfeLatencyMetricsEnabled, statsMu, views, procs, lastReturned, lastRecord, hist,
                   call, client>>

\* m.Marshal, url.Parse(c.endpoint), the path and the query.
BuildURL(s) ==
    /\ s.pc = "BuildURL"
    /\ \/ Move(s, [Returned(s, NilResult("marshal")) EXCEPT
                      !.outcome = [fault |-> "marshal", status |-> StatusOK]])
       \/ Move(s, [s EXCEPT !.pc = "NewRequest",
                            !.baseUrl = <<BaseUrl(s.op, s.req, client)>>])
    /\ UNCHANGED <<gfeLatencyMetricsEnabled, statsMu, views, procs, lastReturned, lastRecord, hist,
                   call, client>>

NewRequest_SetsClientInfo(s) ==
    /\ s.pc = "NewRequest"
    /\ client' = [client EXCEPT !.xGoogMetadata = [k \in {"x-goog-api-client"} |-> <<s.op>>]]
    /\ Move(s, [s EXCEPT !.pc = "Do",
                         !.httpReq = <<HttpRequest(s.op, s.baseUrl[1], Header(client'))>>])
    /\ UNCHANGED <<gfeLatencyMetricsEnabled, statsMu, views, procs, lastReturned, lastRecord, hist,
                   call>>

\* http.NewRequest, WithContext and the copy of c.xGoogMetadata into the header.
NewRequest(s) ==
    /\ s.pc = "NewRequest"
    /\ Move(s, [s EXCEPT !.pc = "Do",
                         !.httpReq = <<HttpRequest(s.op, s.baseUrl[1], Header(client))>>])
    /\ UNCHANGED <<gfeLatencyMetricsEnabled, statsMu, views, procs, lastReturned, lastRecord, hist,
                   call, client>>

Do_ErrorWhenClosed(s) ==
    /\ s.pc = "Do"
    /\ IF client.httpClient = "nil"
       THEN Move(s, Returned(s, NilResult("transport")))
       ELSE \E outcome \in DoOutcomes :
               Move(s, [Returned(s, Respond(s.op, outcome)) EXCEPT
                           !.outcome = outcome, !.sent = s.httpReq])
    /\ UNCHANGED <<gfeLatencyMetricsEnabled, statsMu, views, procs, lastReturned, lastRecord, hist,
                   call, client>>

\* c.httpClient.Do(httpReq), the status check, ReadAll and Unmarshal.
Do(s) ==
    /\ s.pc = "Do"
    /\ IF client.httpClient = "nil"
       THEN Move(s, Returned(s, NilResult("panic")))
       ELSE \E outcome \in DoOutcomes :
               Move(s, [Returned(s, Respond(s.op, outcome)) EXCEPT
                           !.outcome = outcome, !.sent = s.httpReq])
    /\ UNCHANGED <<gfeLatencyMetricsEnabled, statsMu, views, procs, lastReturned, lastRecord, hist,
                   call, client>>

\* disksRESTClient.Close: httpClient becomes nil, nil is returned.
Close(s) ==
    /\ ~InOperation(s)
    /\ client' = [client EXCEPT !.httpClient = "nil"]
    /\ Move(s, [IdleRpc EXCEPT !.op = "Close", !.pc = "returned"])
    /\ UNCHANGED <<gfeLatencyMetricsEnabled, statsMu, views, procs, lastReturned, lastRecord, hist,
                   call>>

DiskNext ==
    \E s \in Goroutines :
        \/ \E op \in DiskOperations : CallDisk(s, op)
        \/ BuildURL(s)
        \/ NewRequest(s)
        \/ Do(s)
        \/ Close(s)

DiskSpec == Init /\ [][DiskNext]_vars

(***************************************************************************)
(* Properties of the capture path (CaptureSpec).                           *)
(***************************************************************************)
Captured == call.fn = "captureGFELatencyStats"

ServerTiming == MDGet(call.md, "server-timing")

\* A base-10 integer as the header is meant to carry it: digits, with an
\* optional sign.
IsInteger(s) ==
    LET body == IF s # <<>> /\ s[1] \in {"-", "+"} THEN Tail(s) ELSE s
    IN  body # <<>> /\ \A i \in 1..Len(body) : body[i] \in Digits

IsDigits(s) == s # <<>> /\ \A i \in 1..Len(s) : s[i] \in Digits

Malformed(h) == ~HasPrefix(h, GfePrefix) \/ ~IsInteger(SubSeq(h, Len(GfePrefix) + 1, Len(h)))

WellFormed(h) == HasPrefix(h, GfePrefix) /\ IsDigits(SubSeq(h, Len(GfePrefix) + 1, Len(h)))

RowsOn(m) == {i \in 1..Len(call.rows) : call.rows[i].measure = m}

\* C1: whenever the server-timing entry is present and its first value does
\* not start with "gfet4t7; dur=" or has a remainder that is not a base-10
\* integer, the call returns a non-nil error and records nothing.
C1_MalformedHeaderIsError ==
    (Captured /\ Len(ServerTiming) > 0 /\ Malformed(ServerTiming[1]))
        => (call.err # "nil" /\ call.rows = <<>>)

\* C2: whenever the first server-timing value is "gfet4t7; dur=<N>" with N a
\* non-negative integer, for every keyMethod and every incoming context, the
\* call returns no error and records exactly one value, N, on GFELatency, in
\* a context whose grpc_client_method tag is keyMethod.
C2_WellFormedRecordsLatency ==
    (Captured /\ Len(ServerTiming) > 0 /\ WellFormed(ServerTiming[1]))
        => /\ call.err = "nil"
           /\ Len(call.rows) = 1
           /\ call.rows[1].measure = GFELatency
           /\ call.rows[1].value = DecimalValue(SubSeq(ServerTiming[1], Len(GfePrefix) + 1,
                                                        Len(ServerTiming[1])))
           /\ tagKeyMethod \in DOMAIN call.rows[1].tags
           /\ call.rows[1].tags[tagKeyMethod] = call.keyMethod

\* C3: whenever the metadata has no server-timing value, the call returns no
\* error, records exactly one unit on GFEHeaderMissingCount and nothing on
\* GFELatency.
C3_AbsentHeaderCountsMissing ==
    (Captured /\ Len(ServerTiming) = 0)
        => /\ call.err = "nil"
           /\ Len(call.rows) = 1
           /\ call.rows[1].measure = GFEHeaderMissingCount
           /\ call.rows[1].value = 1
           /\ RowsOn(GFELatency) = {}

C3_Witness ==
    /\ Captured
    /\ "server-timing" \in DOMAIN call.md
    /\ Len(ServerTiming) = 0
    /\ call.err = "nil"
    /\ Cardinality(RowsOn(GFEHeaderMissingCount)) = 1

\* C20: whenever the metadata has no server-timing value, the unit on
\* GFEHeaderMissingCount is recorded with exactly the tags of the incoming
\* context (the grpc_client_method tag is there only if the incoming
\* context had it, with that value); every row on GFELatency has the
\* grpc_client_method tag.
C20_MissingRecordedInCallerContext ==
    /\ (Captured /\ Len(ServerTiming) = 0)
          => (Len(call.rows) = 1 /\ call.rows[1].tags = call.ctx)
    /\ Captured
          => \A i \in RowsOn(GFELatency) : tagKeyMethod \in DOMAIN call.rows[i].tags

C20_Witness ==
    /\ Captured
    /\ Len(ServerTiming) = 0
    /\ call.keyMethod = "Read"
    /\ tagKeyMethod \notin DOMAIN call.ctx
    /\ Cardinality(RowsOn(GFEHeaderMissingCount)) = 1
    /\ tagKeyMethod \notin DOMAIN call.rows[1].tags

(***************************************************************************)
(* Properties of the flag under concurrent calls (Spec).                   *)
(***************************************************************************)
\* q has read the flag and still holds the shared lock.
HasRead(q) == At(q, "RUnlock")

InWriteSection(p) == At(p, "Write") \/ At(p, "Unlock")

InReadSection(q) == At(q, "Read") \/ At(q, "RUnlock")

ReadsAre(b) ==
    /\ gfeLatencyMetricsEnabled = b
    /\ \A q \in Procs : HasRead(q) => procs[q].val = b

\* C4 as stated: once a GFE enable call has returned, and as long as no
\* disable call has taken a step since or is in progress, the flag reads
\* true; once the disable call has returned, and as long as no enable call
\* has taken a step since or is in progress, it reads false.
C4_ReadsFollowLastReturn ==
    /\ (lastReturned.kind = "enable"  /\ ~InProgress("disable")) => ReadsAre(TRUE)
    /\ (lastReturned.kind = "disable" /\ ~InProgress("enable"))  => ReadsAre(FALSE)

\* C4, amended: the same, for a call during which no call of the opposite
\* kind was in progress.
C4_ReadsFollowLastUndisturbedReturn ==
    /\ (lastReturned.kind = "enable"  /\ lastReturned.clean) => ReadsAre(TRUE)
    /\ (lastReturned.kind = "disable" /\ lastReturned.clean) => ReadsAre(FALSE)

C4_Witness ==
    /\ lastReturned = [kind |-> "enable", clean |-> TRUE]
    /\ \E q \in Procs : HasRead(q) /\ procs[q].val

\* The instructions p has executed in its current call.
Executed(p) == IF procs[p].op = "idle" THEN <<>>
               ELSE SubSeq(Program(procs[p].op), 1, procs[p].pc - 1)

HasExecuted(p, i) == \E j \in DOMAIN Executed(p) : Executed(p)[j].i = i

\* C6: a GFE enable call that is about to register its views, or has
\* registered them, has set the flag and released the lock before.
C6_FlagSetBeforeRegister ==
    \A p \in Procs :
        (procs[p].op \in GfeEnableOps /\ (At(p, "Register") \/ HasExecuted(p, "Register")))
            => (HasExecuted(p, "Write") /\ HasExecuted(p, "Unlock"))

C6_Witness ==
    \E p \in Procs :
        /\ procs[p].op = "EnableGfeHeaderMissingCountView"
        /\ At(p, "Register")
        /\ gfeLatencyMetricsEnabled
        /\ views[GFEHeaderMissingCountView] = "none"
        /\ \E q \in Procs : HasRead(q) /\ procs[q].val

\* C7: a goroutine between Lock and Unlock is alone in the locked sections,
\* statsMu records exactly the holders, and the value a reader holds while
\* it still has the shared lock is the flag's value.
C7_FlagOnlyUnderStatsMu ==
    /\ \A p \in Procs : InWriteSection(p) <=> statsMu.writer = p
    /\ \A q \in Procs : InReadSection(q) <=> q \in statsMu.readers
    /\ \A p, q \in Procs :
          (p # q /\ InWriteSection(p)) => (~InWriteSection(q) /\ ~InReadSection(q))
    /\ \A q \in Procs : HasRead(q) => procs[q].val = gfeLatencyMetricsEnabled

C7_Witness ==
    \E p, q \in Procs :
        /\ p # q
        /\ At(p, "Unlock")
        /\ gfeLatencyMetricsEnabled
        /\ At(q, "RLock")

Quiet == ~InProgress("enable") /\ ~InProgress("disable")

SomeGfeViewRegistered == \E v \in GfeViews : views[v] # "none"

\* C18 as stated: in every state in which no enable or disable call is in
\* progress, the flag is true exactly when one of the two GFE views is
\* registered.
C18_FlagIffRegistered ==
    Quiet => (gfeLatencyMetricsEnabled <=> SomeGfeViewRegistered)

\* C18, amended: the same, in the states in which the enable or disable
\* call that returned last had no call of the opposite kind in progress
\* during it, and no call of the opposite kind has started since.
C18_FlagIffRegisteredAfterUndisturbedCall ==
    (Quiet /\ lastReturned.kind \in {"enable", "disable"} /\ lastReturned.clean)
        => (gfeLatencyMetricsEnabled <=> SomeGfeViewRegistered)

C18_Witness ==
    /\ Quiet
    /\ lastReturned = [kind |-> "disable", clean |-> TRUE]
    /\ ~gfeLatencyMetricsEnabled
    /\ ~SomeGfeViewRegistered
    /\ lastRecord.measure = GFELatency

(***************************************************************************)
(* Properties of whole calls made one after another (SeqSpec).             *)
(***************************************************************************)
Last == hist[Len(hist)]

Prev == hist[Len(hist) - 1]

SameState(a, b) == a.flag = b.flag /\ a.views = b.views

\* C5: after a disable call the flag is false and both GFE views are
\* unregistered, whatever the state before, and a second disable call right
\* after the first changes nothing.
C5_DisableIdempotent ==
    /\ (Len(hist) >= 1 /\ Last.op = DisableOp)
          => /\ ~gfeLatencyMetricsEnabled
             /\ \A v \in GfeViews : views[v] = "none"
             /\ Last.err = "nil"
    /\ (Len(hist) >= 2 /\ Last.op = DisableOp /\ Prev.op = DisableOp)
          => SameState(Last, Prev)

C5_Witness ==
    /\ Len(hist) = 3
    /\ hist[1].op = "EnableGfeLatencyAndHeaderMissingCountViews"
    /\ hist[1].flag /\ \A v \in GfeViews : hist[1].views[v] = "own"
    /\ hist[2].op = DisableOp
    /\ hist[3].op = DisableOp
    /\ ~gfeLatencyMetricsEnabled

\* C9: an enable function called twice in a row leaves the flag and the
\* registry as the first call left them, and the second call returns no
\* error when the first returned none.
C9_EnableIdempotent ==
    (Len(hist) >= 2 /\ Last.op \in EnableOps /\ Prev.op = Last.op)
        => /\ SameState(Last, Prev)
           /\ Prev.err = "nil" => Last.err = "nil"

C9_Witness ==
    /\ Len(hist) >= 2
    /\ Prev.op = "EnableStatViews" /\ Prev.err = "nil"
    /\ Last.op = "EnableStatViews" /\ Last.err = "nil"
    /\ \A i \in DOMAIN CoreViews : views[CoreViews[i]] = "own"

\* The three metric groups, the views of each and the functions that act on it.
Groups == {"core", "latency", "missing"}

GroupViews(g) ==
    CASE g = "core"    -> Range(CoreViews)
      [] g = "latency" -> {GFELatencyView}
      [] g = "missing" -> {GFEHeaderMissingCountView}

OpGroups(op) ==
    CASE op = "EnableStatViews"                            -> {"core"}
      [] op = "EnableGfeLatencyView"                       -> {"latency"}
      [] op = "EnableGfeHeaderMissingCountView"            -> {"missing"}
      [] op = "EnableGfeLatencyAndHeaderMissingCountViews" -> {"latency", "missing"}
      [] op = DisableOp                                    -> {"latency", "missing"}
      [] op = "getGFELatencyMetricsFlag"                   -> {}
      [] OTHER                                             -> Groups

Registered(g) == [v \in GroupViews(g) |-> views[v]]

\* Recording on the GFE measures is gated by the flag; the core measures have no gate.
RecordingEnabled(g) == IF g = "core" THEN TRUE ELSE gfeLatencyMetricsEnabled

\* C10 as stated: a call on one group changes neither the registrations nor
\* the recording-enabled state of the other groups.
C10_GroupsIndependent ==
    [][\A g \in Groups \ OpGroups(hist'[Len(hist')].op) :
          /\ Registered(g)' = Registered(g)
          /\ RecordingEnabled(g)' = RecordingEnabled(g)]_vars

\* C10, amended: a call on one group changes no registration of another
\* group, and a call on the core group does not change the flag; the flag
\* itself is shared by the two GFE groups.
C10_RegistrationsIndependent ==
    [][/\ \A g \in Groups \ OpGroups(hist'[Len(hist')].op) : Registered(g)' = Registered(g)
       /\ OpGroups(hist'[Len(hist')].op) \subseteq {"core"}
             => gfeLatencyMetricsEnabled' = gfeLatencyMetricsEnabled]_vars

C10_Witness ==
    /\ Len(hist) >= 2
    /\ Prev.op = "EnableStatViews"
    /\ ~Prev.flag
    /\ Last.op = "EnableGfeLatencyView"
    /\ gfeLatencyMetricsEnabled
    /\ views[GFELatencyView] = "own"
    /\ views[GFEHeaderMissingCountView] = "none"
    /\ Registered("core") = [v \in Range(CoreViews) |-> Prev.views[v]]

\* The flag before the call that hist ends with.
FlagBeforeLast == IF Len(hist) >= 2 THEN Prev.flag ELSE FALSE

\* C19: when a GFE enable function returns the registration error, the flag
\* is true afterwards; it is not set back, so the call changed the state
\* whenever the flag was false before it.
C19_FailedEnableKeepsFlag ==
    (Len(hist) >= 1 /\ Last.op \in GfeEnableOps /\ Last.err # "nil")
        => /\ Last.flag
           /\ gfeLatencyMetricsEnabled
           /\ ~FlagBeforeLast => (Len(hist) >= 2 => ~SameState(Last, Prev))

C19_Witness ==
    /\ Len(hist) >= 2
    /\ Prev.op = "RegisterForeign" /\ ~Prev.flag
    /\ Last.op = "EnableGfeLatencyAndHeaderMissingCountViews"
    /\ Last.err = "ErrRegister"
    /\ gfeLatencyMetricsEnabled
    /\ views[GFELatencyView] = "own"
    /\ views[GFEHeaderMissingCountView] = "foreign"

(***************************************************************************)
(* Properties of the tag context construction (TagSpec).                   *)
(***************************************************************************)
GotTags == call.fn \in {"getCommonTags", "createContextAndCaptureGFELatencyMetrics"}

Created == call.fn = "createContextAndCaptureGFELatencyMetrics"

\* The database name is projects/<p>/instances/<i>/databases/<d>.
FullyQualified(db) ==
    /\ Len(db) = 6
    /\ db[1] = "projects" /\ db[3] = "instances" /\ db[5] = "databases"
    /\ \A i \in {2, 4, 6} : db[i] # ""

\* C11: when the session client's database name does not parse,
\* getCommonTags returns nil; when it parses, it returns a commonTags with
\* the client's id, the parsed database and instance, and version.Repo.
C11_GetCommonTags ==
    GotTags =>
        IF FullyQualified(call.sc.database)
        THEN /\ ~call.ct.isNil
             /\ call.ct.clientID = call.sc.id
             /\ call.ct.database = call.sc.database[6]
             /\ call.ct.instance = call.sc.database[4]
             /\ call.ct.libVersion = versionRepo
        ELSE call.ct.isNil

C11_Witness ==
    /\ call.fn = "getCommonTags"
    /\ ~call.ct.isNil
    /\ call.ct.database = "db" /\ call.ct.instance = "inst"

\* C12: the context handed to captureGFELatencyStats has, for client_id,
\* database, instance_id and library_version, the values of the commonTags,
\* whatever the incoming context had for them, and every other tag of the
\* incoming context with its value, and no further tag.
C12_UpsertCommonTags ==
    (Created /\ call.handed # <<>>) =>
        LET h == call.handed[1]
        IN  /\ DOMAIN h = DOMAIN call.ctx \cup CommonTagKeys
            /\ h[tagKeyClientID] = call.ct.clientID
            /\ h[tagKeyDatabase] = call.ct.database
            /\ h[tagKeyInstance] = call.ct.instance
            /\ h[tagKeyLibVersion] = call.ct.libVersion
            /\ \A k \in DOMAIN call.ctx \ CommonTagKeys : h[k] = call.ctx[k]

C12_Witness ==
    /\ Created
    /\ call.handed # <<>>
    /\ DOMAIN call.ctx = CommonTagKeys \cup {tagKeyMethod}
    /\ call.ctx[tagKeyMethod] = "old"
    /\ call.ctx[tagKeyDatabase] = "old"
    /\ call.handed[1][tagKeyDatabase] = "db"
    /\ call.handed[1][tagKeyMethod] = "old"

\* C13 as stated: for every input, the nil commonTags of a database name
\* that does not parse included, createContextAndCaptureGFELatencyMetrics
\* returns nil or an error value; it does not panic.
C13_CaptureNeverPanics ==
    Created => call.err \in {"nil", "ErrSyntax", "errInvalidValue"}

(***************************************************************************)
(* Properties of the disk operations (DiskSpec, DiskCallSpec).             *)
(***************************************************************************)
\* C14: a step of one of the 13 operations changes no field of the client,
\* and as long as the client is as NewDisksRESTClient made it, a call that
\* has returned has sent the request and returned the result that the
\* operation run alone on that client gives for the same request and the
\* same answer of the environment, whatever the other goroutines did.
C14_OperationsShareNoMutableState ==
    /\ [][\A s \in Goroutines :
             (InOperation(s) /\ CountIn(rpcs', s) < CountIn(rpcs, s)) => client' = client]_vars
    /\ [](client = NewDisksRESTClient =>
            \A s \in Goroutines :
                (s.pc = "returned" /\ s.op \in DiskOperations) =>
                    LET alone == DiskCall(s.op, s.req, s.outcome, NewDisksRESTClient)
                    IN  /\ s.sent = alone.sent
                        /\ s.result = alone.result
                        /\ s.err = alone.err)

C14_Witness ==
    /\ client = NewDisksRESTClient
    /\ \E s, t \in Goroutines :
          /\ s.pc = "returned" /\ s.op = "Get" /\ s.result = "Disk"
          /\ t.pc = "returned" /\ t.op = "Insert" /\ t.err = "status"
          /\ s.sent # <<>> /\ t.sent # <<>>
          /\ s.sent[1].header = t.sent[1].header

DiskCalled == call.fn \in DiskOperations

\* The last path segment of the operations that act on a disk.
ActionSuffix(op) ==
    CASE op = "AddResourcePolicies"    -> "/addResourcePolicies"
      [] op = "CreateSnapshot"         -> "/createSnapshot"
      [] op = "GetIamPolicy"           -> "/getIamPolicy"
      [] op = "RemoveResourcePolicies" -> "/removeResourcePolicies"
      [] op = "Resize"                 -> "/resize"
      [] op = "SetIamPolicy"           -> "/setIamPolicy"
      [] op = "SetLabels"              -> "/setLabels"
      [] op = "TestIamPermissions"     -> "/testIamPermissions"
      [] OTHER                         -> ""

\* C15: no two operations have the same verb and path template; every
\* template starts with /compute/v1/projects/; the request an operation
\* sends has its verb (GET for Get, List, AggregatedList and GetIamPolicy,
\* DELETE for Delete, POST for the others) and the path made of the
\* request's project, zone and disk or resource, with the operation's own
\* suffix.
C15_VerbAndPathPerOperation ==
    /\ \A a, b \in DiskOperations :
          a # b => <<Verb(a), PathTemplate(a)>> # <<Verb(b), PathTemplate(b)>>
    /\ \A a \in DiskOperations : PathTemplate(a)[1] = "/compute/v1/projects/"
    /\ PathTemplate("Get") = PathTemplate("Delete")
    /\ PathTemplate("List") = PathTemplate("Insert")
    /\ (DiskCalled /\ call.sent # <<>> /\ ~call.req.isNil) =>
          LET op == call.fn
              r  == call.req
              id == IF op \in {"GetIamPolicy", "SetIamPolicy", "SetLabels", "TestIamPermissions"}
                    THEN r.resource ELSE r.disk
          IN  /\ call.sent[1].method =
                    (IF op \in {"Get", "List", "AggregatedList", "GetIamPolicy"} THEN "GET"
                     ELSE IF op = "Delete" THEN "DELETE" ELSE "POST")
              /\ call.sent[1].url.string =
                    client.endpoint \o "/compute/v1/projects/" \o r.project \o
                    (IF op = "AggregatedList" THEN "/aggregated/disks"
                     ELSE "/zones/" \o r.zone \o "/disks" \o
                          (IF op \in {"Insert", "List"} THEN ""
                           ELSE "/" \o id \o ActionSuffix(op)))

C15_Witness ==
    /\ call.fn = "Delete"
    /\ call.sent # <<>>
    /\ call.sent[1].method = "DELETE"
    /\ call.sent[1].url.string = "https://compute.googleapis.com/compute/v1/projects/p/zones/z/disks/d"

FailsBeforeResult(outcome) ==
    \/ outcome.fault \in {"marshal", "newRequest", "transport", "read"}
    \/ outcome.status # 200

\* C16: a result is returned only when no step before the unmarshalling
\* failed and the status is 200; a marshalling, request-construction,
\* transport or read failure, or another status, gives a nil result, a
\* non-nil error and no deserialization; after a marshalling or
\* request-construction failure no request has been issued.
C16_ResultOnlyOnStatus200 ==
    DiskCalled =>
        /\ call.result # "nil" => ~FailsBeforeResult(call.outcome)
        /\ FailsBeforeResult(call.outcome)
              => (call.result = "nil" /\ call.err # "nil" /\ ~call.deserialized)
        /\ call.outcome.fault \in {"marshal", "newRequest"} => call.sent = <<>>

C16_Witness ==
    /\ call.fn = "Insert"
    /\ call.outcome = [fault |-> "none", status |-> 204]
    /\ call.sent # <<>>
    /\ call.result = "nil"
    /\ call.err = "status"

\* The entries of the query string sent for the parameter.
QueryEntries(name) ==
    {i \in 1..Len(call.sent[1].url.rawQuery) : call.sent[1].url.rawQuery[i].key = name}

\* The text of the value of the parameter's field.
Shown(name, v) ==
    IF name \in {"includeAllScopes", "returnPartialSuccess", "guestFlush"}
    THEN (IF v THEN "true" ELSE "false")
    ELSE IF name \in {"maxResults", "optionsRequestedPolicyVersion"}
    THEN (IF v = 0 THEN "0" ELSE IF v = 25 THEN "25" ELSE "?")
    ELSE v

\* C17: in the request an operation sends, each of its optional fields that
\* is set, to its zero value or another, has exactly one entry in the query
\* string, with the field's value; a field that is not set has none, and
\* the query string has no other entry.
C17_QueryParamIffFieldSet ==
    (DiskCalled /\ call.sent # <<>>) =>
        LET set == IF call.req.isNil THEN {} ELSE DOMAIN call.req.opt
            q   == call.sent[1].url.rawQuery
        IN  /\ \A name \in set :
                  /\ Cardinality(QueryEntries(name)) = 1
                  /\ \A i \in QueryEntries(name) : q[i].value = Shown(name, call.req.opt[name])
            /\ \A i \in 1..Len(q) : q[i].key \in set
            /\ set \subseteq Range(QueryParams(call.fn))

C17_Witness ==
    /\ call.fn = "AggregatedList"
    /\ call.sent # <<>>
    /\ DOMAIN call.req.opt = {"filter", "maxResults", "includeAllScopes"}
    /\ call.req.opt["filter"] = "" /\ call.req.opt["maxResults"] = 0
    /\ ~call.req.opt["includeAllScopes"]
    /\ call.sent[1].url.rawQuery = <<[key |-> "filter", value |-> ""],
                                     [key |-> "includeAllScopes", value |-> "false"],
                                     [key |-> "maxResults", value |-> "0"]>>

\* A goroutine leaves state s in the step.
Leaves(s) == CountIn(rpcs', s) < CountIn(rpcs, s)

\* A goroutine arrives in state t in the step.
Arrives(t) == CountIn(rpcs', t) > CountIn(rpcs, t)

Closed == client.httpClient = "nil"

\* A goroutine has returned from Close in the step.
CloseReturns == \E t \in DOMAIN rpcs' : t.op = "Close" /\ t.pc = "returned" /\ Arrives(t)

\* C21: a step that changes the client sets httpClient to nil and leaves
\* endpoint and xGoogMetadata as they were; a call of Close returns nil and
\* leaves httpClient nil, also when it was nil already; once nil, httpClient
\* stays nil whatever is called; and with httpClient nil, a goroutine of any
\* of the 13 operations that takes the step of httpClient.Do panics, with
\* no request sent and no result.
C21_CloseLifecycle ==
    /\ [][client' # client =>
             /\ client'.httpClient = "nil"
             /\ client'.endpoint = client.endpoint
             /\ client'.xGoogMetadata = client.xGoogMetadata]_vars
    /\ [][CloseReturns =>
             /\ client'.httpClient = "nil"
             /\ \A t \in DOMAIN rpcs' : (t.op = "Close" /\ Arrives(t)) => t.err = "nil"
             /\ Closed => client' = client]_vars
    /\ [][Closed => client'.httpClient = "nil"]_vars
    /\ [][\A s \in Goroutines :
             (Closed /\ s.pc = "Do" /\ s.op \in DiskOperations /\ Leaves(s)) =>
                 \A t \in DOMAIN rpcs' :
                     Arrives(t) => /\ t.op = s.op
                                   /\ t.pc = "returned"
                                   /\ t.err = "panic"
                                   /\ t.result = "nil"
                                   /\ t.sent = <<>>]_vars

C21_Witness ==
    /\ Closed
    /\ client.endpoint = NewDisksRESTClient.endpoint
    /\ \E s, t \in Goroutines :
          /\ s.op = "Close" /\ s.pc = "returned" /\ s.err = "nil"
          /\ t.op = "Get" /\ t.pc = "returned" /\ t.err = "panic"
          /\ t.httpReq # <<>>

\* The status is 200, the body was read and its deserialization failed.
UnmarshalFailed(outcome) == outcome.fault = "unmarshal" /\ outcome.status = 200

\* C22: when the status is 200, the body is read and the deserialization
\* fails, the operation returns a non-nil result of its type together with
\* a non-nil error; every other call that returns an error returns a nil
\* result; a call in which nothing fails returns a non-nil result of its
\* type and a nil error.
C22_ResultWithUnmarshalError ==
    DiskCalled =>
        /\ UnmarshalFailed(call.outcome)
              => (call.result # "nil" /\ call.err # "nil" /\ call.deserialized)
        /\ (call.err # "nil" /\ ~UnmarshalFailed(call.outcome)) => call.result = "nil"
        /\ call.outcome = [fault |-> "none", status |-> 200]
              => (call.result # "nil" /\ call.err = "nil")
        /\ call.err = "nil" => call.outcome = [fault |-> "none", status |-> 200]
        /\ call.result # "nil" =>
              call.result = (CASE call.fn = "AggregatedList" -> "DiskAggregatedList"
                               [] call.fn = "Get" -> "Disk"
                               [] call.fn = "List" -> "DiskList"
                               [] call.fn \in {"GetIamPolicy", "SetIamPolicy"} -> "Policy"
                               [] call.fn = "TestIamPermissions" -> "TestPermissionsResponse"
                               [] OTHER -> "Operation")

C22_Witness ==
    /\ call.fn = "Get"
    /\ call.outcome = [fault |-> "unmarshal", status |-> 200]
    /\ call.sent # <<>>
    /\ call.result = "Disk"
    /\ call.err = "unmarshal"

====
